---- MODULE Spec2Model ----
(***************************************************************************)
(* smolcar: a finalized-block ingestion task (src/main.rs) that filters    *)
(* extrinsics and events, stores one row per block number in SQLite        *)
(* (src/db.rs) and keeps a shared latest-block view served over HTTP.      *)
(***************************************************************************)
EXTENDS Integers, Sequences, FiniteSets, TLC

----------------------------------------------------------------------------
(* Bounds of the model *)

\* block numbers delivered by the feed are 1..MaxNum (0 is the placeholder's)
MaxNum == 1
\* chrono::Utc::now().timestamp() ranges over 0..MaxClock
MaxClock == 1
\* concurrent GET /blocks/head requests
NumReaders == 1
\* items the finalized-block subscription yields in a run
MaxDeliveries == 2
\* longest event filter rule list
MaxRules == 2
\* most extrinsics in a block of the projection specification
MaxExt == 2
\* keys of the table in the store specification are 0..MaxKey
MaxKey == 3
\* largest LIMIT of a range scan
MaxLimit == 3

Numbers == 1..MaxNum
Readers == 1..NumReaders
Keys == 0..MaxKey

----------------------------------------------------------------------------
(* Small helpers *)

Min(a, b) == IF a <= b THEN a ELSE b

\* sequences over S of length 0..n
SeqsUpTo(S, n) == UNION {[1..k -> S] : k \in 0..n}

----------------------------------------------------------------------------
(* JSON: serde_json values, as their trees *)

JObject(m) == [type |-> "object", members |-> m]
JArray(s) == [type |-> "array", items |-> s]

\* serde_json::to_value(&EventInfo): the derived Serialize of the struct
EventToValue(ev) ==
    JObject([pallet |-> ev.pallet, variant |-> ev.variant, data |-> ev.data])

ToValueNoEvents(e) ==
    JObject([index |-> e.index, hash |-> e.hash, action |-> e.action,
             params |-> e.params, events |-> JArray(<<>>)])

\* serde_json::to_value(&ExtrinsicInfo)
ToValue(e) ==
    JObject([index |-> e.index, hash |-> e.hash, action |-> e.action,
             params |-> e.params,
             events |-> JArray([i \in 1..Len(e.events) |-> EventToValue(e.events[i])])])

\* serde_json::to_string(&StoredBlock): the text of block_data
ToJsonString(b) ==
    JObject([number |-> b.number, hash |-> b.hash,
             extrinsics |-> JArray(b.extrinsics), timestamp |-> b.timestamp])

\* texts no serde_json::from_str::<StoredBlock> accepts
NotJson == [type |-> "invalid"]
MissingFields(n) == JObject([number |-> n])
CorruptTexts(n) == {NotJson, MissingFields(n)}

StoredBlockFields == {"number", "hash", "extrinsics", "timestamp"}

\* serde_json::from_str::<StoredBlock>(text)
FromJsonString(text) ==
    IF /\ text.type = "object"
       /\ StoredBlockFields \subseteq DOMAIN text.members
       /\ text.members.extrinsics.type = "array"
    THEN [ok |-> TRUE,
          block |-> [number |-> text.members.number,
                     hash |-> text.members.hash,
                     extrinsics |-> text.members.extrinsics.items,
                     timestamp |-> text.members.timestamp]]
    ELSE [ok |-> FALSE]

----------------------------------------------------------------------------
(* FilterSet: Database::should_include_event / should_include_extrinsic *)

NoMethod == [some |-> FALSE]
SomeMethod(m) == [some |-> TRUE, name |-> m]
EventFilter(p, m) == [pallet |-> p, method |-> m]

RECURSIVE ScanFirstPallet(_, _, _)
ScanFirstPallet(filters, pallet, method) ==
    IF filters = <<>> THEN TRUE
    ELSE LET filter == Head(filters) IN
         IF filter.pallet = pallet
         THEN ~(~filter.method.some \/ filter.method.name = method)
         ELSE ScanFirstPallet(Tail(filters), pallet, method)

RECURSIVE should_include_event(_, _, _)
should_include_event(filters, pallet, method) ==
    IF filters = <<>> THEN TRUE
    ELSE LET filter == Head(filters) IN
         IF filter.pallet = pallet
         THEN IF ~filter.method.some THEN FALSE
              ELSE IF filter.method.name = method THEN FALSE
              ELSE should_include_event(Tail(filters), pallet, method)
         ELSE should_include_event(Tail(filters), pallet, method)

IncludeEveryExtrinsic(filters, action) == TRUE

should_include_extrinsic(filters, action) ==
    ~(\E i \in 1..Len(filters) : filters[i] = action)

----------------------------------------------------------------------------
(* The feed's blocks, as subxt exposes them *)

OkText(t) == [ok |-> TRUE, text |-> t]
ErrText == [ok |-> FALSE]
OkName(n) == [ok |-> TRUE, name |-> n]
ErrName == [ok |-> FALSE]

\* an event of extrinsic_details.events(): Ok(evt) or Err
RawEvent(p, v, fv) == [ok |-> TRUE, pallet |-> p, variant |-> v, field_values |-> fv]
BadEvent == [ok |-> FALSE]

EvTransfer == RawEvent("Balances", "Transfer", OkText("(1)"))
EvSuccess == RawEvent("System", "ExtrinsicSuccess", OkText("()"))
EvOpaque == RawEvent("Balances", "Deposit", ErrText)

OkEvents(s) == [ok |-> TRUE, items |-> s]
ErrEvents == [ok |-> FALSE]

\* an extrinsic without its position: metadata, field values, events
Tmpl(meta, fv, evs) == [meta |-> meta, field_values |-> fv, events |-> evs]

TParaInherent == Tmpl(OkName("ParaInherent/enter"), OkText("(d)"), OkEvents(<<EvTransfer>>))
TTransfer == Tmpl(OkName("Balances/transfer"), OkText("(a,1)"), OkEvents(<<EvTransfer, EvSuccess>>))
TUnknown == Tmpl(ErrName, ErrText, OkEvents(<<BadEvent, EvOpaque>>))
TNoEvents == Tmpl(OkName("Balances/transfer"), OkText("(b,2)"), ErrEvents)
TParaNoEvents == Tmpl(OkName("ParaInherent/enter"), OkText("(d)"), ErrEvents)

Templates == {TParaInherent, TTransfer, TUnknown, TNoEvents, TParaNoEvents}

\* extrinsic_details.index() is the position in the block, from 0;
\* the hash is the hash of its bytes
RawExtrinsic(t, i) ==
    [index |-> i - 1,
     hash |-> IF t = TTransfer THEN "0xe1" ELSE IF t = TUnknown THEN "0xe2" ELSE "0xe3",
     meta |-> t.meta, field_values |-> t.field_values, events |-> t.events]

RawExtrinsics(ts) == [i \in 1..Len(ts) |-> RawExtrinsic(ts[i], i)]

OkExtrinsics(ts) == [ok |-> TRUE, items |-> RawExtrinsics(ts)]
ErrExtrinsics == [ok |-> FALSE]

RawBlock(n, h, exts) == [number |-> n, hash |-> h, extrinsics |-> exts]
NoBlock == [number |-> 0, hash |-> "", extrinsics |-> ErrExtrinsics]

\* the blocks the client may deliver in the ingestion specification: for
\* each number two contents (a redelivery may differ) and one with an
\* extrinsic that fails to fetch its events
SmallChain ==
    UNION {{RawBlock(n, "0xa", OkExtrinsics(<<TTransfer>>)),
            RawBlock(n, "0xb", OkExtrinsics(<<TParaInherent, TUnknown>>)),
            RawBlock(n, "0xd", OkExtrinsics(<<TNoEvents>>))} : n \in Numbers}

\* every block of at most MaxExt extrinsics, for the projection specification
RichChain ==
    {RawBlock(1, "0xa", OkExtrinsics(ts)) : ts \in SeqsUpTo(Templates, MaxExt)}
    \cup {RawBlock(1, "0xc", ErrExtrinsics)}

----------------------------------------------------------------------------
(* BlockProjector: the loop of main.rs over the block's extrinsics *)

EventInfo(evt) ==
    [pallet |-> evt.pallet, variant |-> evt.variant,
     data |-> IF evt.field_values.ok THEN evt.field_values.text ELSE ""]

RECURSIVE EventsInfoReversed(_, _)
EventsInfoReversed(filters, evts) ==
    IF evts = <<>> THEN <<>>
    ELSE LET evt == Head(evts)
             rest == EventsInfoReversed(filters, Tail(evts))
         IN IF ~evt.ok THEN rest
            ELSE IF ~should_include_event(filters, evt.pallet, evt.variant) THEN rest
            ELSE rest \o <<EventInfo(evt)>>

\* for evt in events.iter(): undecodable events and filtered events are
\* passed over, the others pushed in order
RECURSIVE EventsInfo(_, _)
EventsInfo(filters, evts) ==
    IF evts = <<>> THEN <<>>
    ELSE LET evt == Head(evts)
             rest == EventsInfo(filters, Tail(evts))
         IN IF ~evt.ok THEN rest
            ELSE IF ~should_include_event(filters, evt.pallet, evt.variant) THEN rest
            ELSE <<EventInfo(evt)>> \o rest

ActionOrEmpty(x) == IF x.meta.ok THEN x.meta.name ELSE ""

Action(x) == IF x.meta.ok THEN x.meta.name ELSE "unknown"

Params(x) == IF x.field_values.ok THEN x.field_values.text ELSE ""

ExtrinsicInfo(x, events_info) ==
    [index |-> x.index, hash |-> x.hash, action |-> Action(x),
     params |-> Params(x), events |-> events_info]

Panicked == [panicked |-> TRUE, extrinsics_info |-> <<>>, total_events |-> 0]

\* for extrinsic_details in extrinsics.iter(): info and total are the
\* accumulators extrinsics_info and total_events
RECURSIVE ProjectLoop(_, _, _, _, _)
ProjectLoop(efilters, xfilters, exts, info, total) ==
    IF exts = <<>>
    THEN [panicked |-> FALSE, extrinsics_info |-> info, total_events |-> total]
    ELSE LET x == Head(exts) IN
         IF ~should_include_extrinsic(xfilters, Action(x))
         THEN ProjectLoop(efilters, xfilters, Tail(exts), info, total)
         ELSE IF ~x.events.ok THEN Panicked
         ELSE LET events_info == EventsInfo(efilters, x.events.items) IN
              ProjectLoop(efilters, xfilters, Tail(exts),
                          Append(info, ExtrinsicInfo(x, events_info)),
                          total + Len(events_info))

\* block.extrinsics().await.unwrap() followed by the loop
Project(efilters, xfilters, b) ==
    IF ~b.extrinsics.ok THEN Panicked
    ELSE ProjectLoop(efilters, xfilters, b.extrinsics.items, <<>>, 0)

----------------------------------------------------------------------------
(* BlockRecordStore: the table blocks, a set of rows *)

StoredBlock(number, hash, infos, timestamp) ==
    [number |-> number, hash |-> hash,
     extrinsics |-> [i \in 1..Len(infos) |-> ToValue(infos[i])],
     timestamp |-> timestamp]

RowOf(b) ==
    [block_number |-> b.number, block_hash |-> b.hash,
     block_data |-> ToJsonString(b), timestamp |-> b.timestamp]

RowsAt(rows, n) == {r \in rows : r.block_number = n}

InsertOrIgnore(rows, b) ==
    IF RowsAt(rows, b.number) = {} THEN rows \cup {RowOf(b)} ELSE rows

\* INSERT OR REPLACE INTO blocks ... (the Ok path of store_block)
store_block(rows, b) ==
    (rows \ RowsAt(rows, b.number)) \cup {RowOf(b)}

ErrResult == [tag |-> "Err"]
NoneResult == [tag |-> "None"]
SomeResult(b) == [tag |-> "Some", block |-> b]

GetBlockLenient(rows, n, io) ==
    IF ~io THEN ErrResult
    ELSE IF RowsAt(rows, n) = {} THEN NoneResult
    ELSE LET row == CHOOSE r \in RowsAt(rows, n) : TRUE
             parsed == FromJsonString(row.block_data)
         IN IF parsed.ok THEN SomeResult(parsed.block) ELSE NoneResult

\* get_block: io is whether prepare, query, next and row.get succeed
get_block(rows, n, io) ==
    IF ~io THEN ErrResult
    ELSE IF RowsAt(rows, n) = {} THEN NoneResult
    ELSE LET row == CHOOSE r \in RowsAt(rows, n) : TRUE
             parsed == FromJsonString(row.block_data)
         IN IF parsed.ok THEN SomeResult(parsed.block) ELSE ErrResult

\* SELECT MAX(block_number): one row, NULL when the table is empty
get_latest_block_number(rows, io) ==
    IF ~io THEN [ok |-> FALSE]
    ELSE IF rows = {} THEN [ok |-> TRUE, some |-> FALSE]
    ELSE [ok |-> TRUE, some |-> TRUE,
          number |-> CHOOSE k \in {r.block_number : r \in rows} :
                        \A r \in rows : r.block_number <= k]

\* ORDER BY block_number DESC
RECURSIVE OrderDesc(_)
OrderDesc(rows) ==
    IF rows = {} THEN <<>>
    ELSE LET top == CHOOSE r \in rows : \A q \in rows : q.block_number <= r.block_number
         IN <<top>> \o OrderDesc(rows \ {top})

\* the loop over the rows: a text that does not parse is passed over
RECURSIVE ParseRows(_)
ParseRows(rs) ==
    IF rs = <<>> THEN <<>>
    ELSE LET parsed == FromJsonString(Head(rs).block_data) IN
         IF parsed.ok THEN <<parsed.block>> \o ParseRows(Tail(rs))
         ELSE ParseRows(Tail(rs))

InRangeExclusive(rows, start, end) ==
    {r \in rows : r.block_number >= start /\ r.block_number < end}

\* WHERE block_number >= ?1 AND block_number <= ?2
InRange(rows, start, end) ==
    {r \in rows : r.block_number >= start /\ r.block_number <= end}

\* LIMIT ?3 is applied by the engine, before the rows are parsed
get_blocks_range(rows, start, end, limit, io) ==
    IF ~io THEN [ok |-> FALSE]
    ELSE LET sel == OrderDesc(InRange(rows, start, end))
         IN [ok |-> TRUE,
             blocks |-> ParseRows(SubSeq(sel, 1, Min(limit, Len(sel))))]

----------------------------------------------------------------------------
(* State *)

VARIABLES
    event_filters,      \* Database.event_filters
    extrinsic_filters,  \* Database.extrinsic_filters
    blocks,             \* the rows of table blocks
    block_info,         \* the shared BlockInfo behind the RwLock
    rw,                 \* the RwLock: who holds it
    pc,                 \* where the subscription task is
    block,              \* its block
    extrinsics_info,    \* its extrinsics_info
    total_events,       \* its total_events
    rpc,                \* where each get_head_block request is
    http,               \* the last response a handler returned
    now,                \* the wall clock, in seconds
    feed_left,          \* items the subscription still yields
    chain,              \* the blocks the client may deliver
    outcome,            \* how the delivery in hand ended, and which block it was
    first_written,      \* per number, the first record stored in this run
    relooked,           \* numbers whose dedup lookup failed after that
    failed,             \* numbers whose upsert failed in this run
    op                  \* the last call made on the store or the filters alone

vars == <<event_filters, extrinsic_filters, blocks, block_info, rw, pc, block,
          extrinsics_info, total_events, rpc, http, now, feed_left,
          chain, outcome, first_written, relooked, failed, op>>

config == <<event_filters, extrinsic_filters, chain>>
task == <<pc, block, extrinsics_info, total_events>>
history == <<outcome, first_written, relooked, failed>>
requests == <<rpc, http>>

\* main.rs 99-105
Placeholder ==
    [number |-> 0, hash |-> "0x0", extrinsics_count |-> 0, events_count |-> 0,
     extrinsics |-> <<>>]

NoOutcome == [state |-> "none", number |-> 0, hash |-> ""]
Outcome(st, b) == [state |-> st, number |-> b.number, hash |-> b.hash]
NoHttp == [route |-> "", status |-> 0]
NoOp == [name |-> "none"]
NoRecord == [written |-> FALSE]

\* main.rs 22-34: EXCLUDED_EVENTS and EXCLUDED_EXTRINSICS as shipped
EXCLUDED_EVENTS == <<>>
EXCLUDED_EXTRINSICS == <<"ParaInherent/enter">>

CorruptRow(n) ==
    [block_number |-> n, block_hash |-> "0xa", block_data |-> NotJson,
     timestamp |-> 0]

\* what ./blocks.db may hold when it is opened: per number nothing or a
\* row whose text does not parse
OpenedTables == {{CorruptRow(n) : n \in S} : S \in SUBSET Numbers}

InitCommon ==
    /\ block_info = Placeholder
    /\ rw = [writer |-> FALSE, readers |-> {}]
    /\ pc = "subscribe"
    /\ block = NoBlock
    /\ extrinsics_info = <<>>
    /\ total_events = 0
    /\ rpc = [r \in Readers |-> "idle"]
    /\ http = NoHttp
    /\ now = 0
    /\ outcome = NoOutcome
    /\ first_written = [n \in Numbers |-> NoRecord]
    /\ relooked = {}
    /\ failed = {}
    /\ op = NoOp

Init ==
    /\ InitCommon
    /\ event_filters = EXCLUDED_EVENTS
    /\ extrinsic_filters = EXCLUDED_EXTRINSICS
    /\ blocks \in OpenedTables
    /\ feed_left = MaxDeliveries
    /\ chain = SmallChain

----------------------------------------------------------------------------
(* The subscription task: main.rs 110-209 *)

\* subscribe_finalized().await.unwrap()
Subscribe ==
    /\ pc = "subscribe"
    /\ \/ pc' = "next"
       \/ pc' = "panicked"
    /\ UNCHANGED <<config, blocks, block_info, rw, block, extrinsics_info,
                   total_events, requests, now, feed_left, history, op>>

\* blocks_sub.next() yields Some(Ok(block))
FeedBlock ==
    /\ pc = "next"
    /\ feed_left > 0
    /\ \E b \in chain : block' = b
    /\ pc' = "dedup"
    /\ feed_left' = feed_left - 1
    /\ outcome' = NoOutcome
    /\ UNCHANGED <<config, blocks, block_info, rw, extrinsics_info,
                   total_events, requests, now, first_written, relooked, failed, op>>

\* blocks_sub.next() yields Some(Err(_)): if let Ok(block) does not match
FeedError ==
    /\ pc = "next"
    /\ feed_left > 0
    /\ feed_left' = feed_left - 1
    /\ outcome' = NoOutcome
    /\ UNCHANGED <<config, blocks, block_info, rw, task, requests, now,
                   first_written, relooked, failed, op>>

\* blocks_sub.next() yields None: the while let loop ends
FeedEnd ==
    /\ pc = "next"
    /\ pc' = "ended"
    /\ UNCHANGED <<config, blocks, block_info, rw, block, extrinsics_info,
                   total_events, requests, now, feed_left, history, op>>

DedupNever(res) == FALSE

DedupUnlessNone(res) == res.tag # "None"

\* if let Ok(Some(_)) = db_clone.get_block(block_number)
DedupHit(res) == res.tag = "Some"

DedupRefreshesView ==
    /\ pc = "dedup"
    /\ \E io \in BOOLEAN :
        LET res == get_block(blocks, block.number, io) IN
        /\ IF DedupHit(res)
           THEN /\ pc' = "next"
                /\ outcome' = Outcome("Skipped", block)
                /\ block_info' = [block_info EXCEPT !.number = block.number,
                                                     !.hash = block.hash]
                /\ block' = NoBlock
           ELSE /\ pc' = "project"
                /\ UNCHANGED <<outcome, block, block_info>>
        /\ relooked' = IF res.tag = "Err" /\ first_written[block.number].written
                       THEN relooked \cup {block.number} ELSE relooked
    /\ UNCHANGED <<config, blocks, rw, extrinsics_info,
                   total_events, requests, now, feed_left, first_written,
                   failed, op>>

DedupCheck ==
    /\ pc = "dedup"
    /\ \E io \in BOOLEAN :
        LET res == get_block(blocks, block.number, io) IN
        /\ IF DedupHit(res)
           THEN /\ pc' = "next"
                /\ outcome' = Outcome("Skipped", block)
                /\ block' = NoBlock
           ELSE /\ pc' = "project"
                /\ UNCHANGED <<outcome, block>>
        /\ relooked' = IF res.tag = "Err" /\ first_written[block.number].written
                       THEN relooked \cup {block.number} ELSE relooked
    /\ UNCHANGED <<config, blocks, block_info, rw, extrinsics_info,
                   total_events, requests, now, feed_left, first_written,
                   failed, op>>

\* main.rs 121-183: the two unwraps end the task
ProjectBlock ==
    /\ pc = "project"
    /\ LET p == Project(event_filters, extrinsic_filters, block) IN
        IF p.panicked
        THEN /\ pc' = "panicked"
             /\ outcome' = Outcome("Aborted", block)
             /\ block' = NoBlock
             /\ UNCHANGED <<extrinsics_info, total_events>>
        ELSE /\ pc' = "lock"
             /\ extrinsics_info' = p.extrinsics_info
             /\ total_events' = p.total_events
             /\ UNCHANGED <<outcome, block>>
    /\ UNCHANGED <<config, blocks, block_info, rw, requests, now,
                   feed_left, first_written, relooked, failed, op>>

\* RwLock::write: no reader and no writer holds the lock
CanWrite(l) == ~l.writer /\ l.readers = {}

\* let mut info = block_info_clone.write().await
AcquireWrite ==
    /\ pc = "lock"
    /\ CanWrite(rw)
    /\ rw' = [rw EXCEPT !.writer = TRUE]
    /\ pc' = "set_number"
    /\ UNCHANGED <<config, blocks, block_info, block, extrinsics_info,
                   total_events, requests, now, feed_left, history, op>>

SetField(at, to, f, v) ==
    /\ pc = at
    /\ pc' = to
    /\ block_info' = [block_info EXCEPT ![f] = v]
    /\ UNCHANGED <<config, blocks, rw, block, extrinsics_info, total_events,
                   requests, now, feed_left, history, op>>

\* main.rs 187-191
SetNumber == SetField("set_number", "set_hash", "number", block.number)
SetHash == SetField("set_hash", "set_extrinsics_count", "hash", block.hash)
SetExtrinsicsCount ==
    SetField("set_extrinsics_count", "set_events_count", "extrinsics_count",
             Len(extrinsics_info))
SetEventsCount ==
    SetField("set_events_count", "set_extrinsics", "events_count", total_events)
SetExtrinsics == SetField("set_extrinsics", "store", "extrinsics", extrinsics_info)

\* main.rs 194-203: the record is built and store_block called, Ok or Err
StoreBlock ==
    /\ pc = "store"
    /\ \E t \in now..MaxClock, io \in BOOLEAN :
        LET stored_block == StoredBlock(block.number, block.hash, extrinsics_info, t) IN
        /\ now' = t
        /\ IF io
           THEN /\ blocks' = store_block(blocks, stored_block)
                /\ outcome' = Outcome("Stored", block)
                /\ UNCHANGED failed
                /\ first_written' =
                     IF first_written[block.number].written THEN first_written
                     ELSE [first_written EXCEPT ![block.number] =
                              [written |-> TRUE, block |-> stored_block]]
           ELSE /\ outcome' = Outcome("Failed", block)
                /\ failed' = failed \cup {block.number}
                /\ UNCHANGED <<blocks, first_written>>
    /\ pc' = "unlock"
    /\ UNCHANGED <<config, block_info, rw, block, extrinsics_info,
                   total_events, requests, feed_left, relooked, op>>

ReleaseKeepsGuard ==
    /\ pc = "unlock"
    /\ pc' = "next"
    /\ block' = NoBlock
    /\ extrinsics_info' = <<>>
    /\ total_events' = 0
    /\ UNCHANGED <<config, blocks, block_info, rw, requests, now, feed_left,
                   history, op>>

\* the guard info is dropped at the end of the loop body
ReleaseWrite ==
    /\ pc = "unlock"
    /\ rw' = [rw EXCEPT !.writer = FALSE]
    /\ pc' = "next"
    /\ block' = NoBlock
    /\ extrinsics_info' = <<>>
    /\ total_events' = 0
    /\ UNCHANGED <<config, blocks, block_info, requests, now, feed_left,
                   history, op>>

----------------------------------------------------------------------------
(* The handlers: main.rs 233-259 *)

ReadAnyTime(l) == TRUE

\* RwLock::read: no writer holds the lock
CanRead(l) == ~l.writer

\* let info = state.block_info.read().await
AcquireRead(r) ==
    /\ rpc[r] = "idle"
    /\ CanRead(rw)
    /\ rw' = [rw EXCEPT !.readers = @ \cup {r}]
    /\ rpc' = [rpc EXCEPT ![r] = "locked"]
    /\ UNCHANGED <<config, blocks, block_info, task, http, now, feed_left,
                   history, op>>

\* Json(info.clone()), and the guard dropped
RespondHead(r) ==
    /\ rpc[r] = "locked"
    /\ http' = [route |-> "/blocks/head", status |-> 200, body |-> block_info]
    /\ rw' = [rw EXCEPT !.readers = @ \ {r}]
    /\ rpc' = [rpc EXCEPT ![r] = "idle"]
    /\ UNCHANGED <<config, blocks, block_info, task, now, feed_left,
                   history, op>>

get_head_block(r) == AcquireRead(r) \/ RespondHead(r)

\* match state.db.get_block(block_number)
Response(res) ==
    IF res.tag = "Some" THEN [status |-> 200, body |-> res.block]
    ELSE IF res.tag = "None" THEN [status |-> 404]
    ELSE [status |-> 500]

\* engine records whether the engine served the lookup
get_block_by_number(n) ==
    /\ \E io \in BOOLEAN :
        http' = [route |-> "/block/:number",
                 status |-> Response(get_block(blocks, n, io)).status,
                 response |-> Response(get_block(blocks, n, io)),
                 number |-> n, engine |-> io]
    /\ UNCHANGED <<config, blocks, block_info, rw, task, rpc, now, feed_left,
                   history, op>>

Ingest ==
    \/ Subscribe \/ FeedBlock \/ FeedError \/ FeedEnd
    \/ DedupCheck \/ ProjectBlock
    \/ AcquireWrite \/ SetNumber \/ SetHash \/ SetExtrinsicsCount
    \/ SetEventsCount \/ SetExtrinsics \/ StoreBlock \/ ReleaseWrite

Next ==
    \/ Ingest
    \/ \E r \in Readers : get_head_block(r)
    \/ \E n \in Numbers : get_block_by_number(n)

Spec == Init /\ [][Next]_vars

----------------------------------------------------------------------------
(* The projection specification: the subscription task alone, one          *)
(* delivery, every block of at most MaxExt extrinsics, several filters     *)

ProjectEventFilters ==
    {<<>>,
     <<EventFilter("Balances", NoMethod)>>,
     <<EventFilter("Balances", SomeMethod("Deposit"))>>,
     <<EventFilter("Balances", SomeMethod("Deposit")),
       EventFilter("System", SomeMethod("ExtrinsicSuccess"))>>}

ProjectExtrinsicFilters ==
    {<<>>, <<"ParaInherent/enter">>, <<"Balances/transfer">>,
     <<"ParaInherent/enter", "Balances/transfer">>, <<"unknown">>}

InitProject ==
    /\ InitCommon
    /\ event_filters \in ProjectEventFilters
    /\ extrinsic_filters \in ProjectExtrinsicFilters
    /\ blocks = {}
    /\ feed_left = 1
    /\ chain = RichChain

SpecProject == InitProject /\ [][Ingest]_vars

----------------------------------------------------------------------------
(* The filter specification: should_include_event on every rule list      *)

Pallets == {"Balances", "System"}
Variants == {"Transfer", "Deposit"}
Methods == {NoMethod} \cup {SomeMethod(v) : v \in Variants}
EventRules == {EventFilter(p, m) : p \in Pallets, m \in Methods}

InitFilter ==
    /\ InitCommon
    /\ event_filters \in SeqsUpTo(EventRules, MaxRules)
    /\ extrinsic_filters = EXCLUDED_EXTRINSICS
    /\ blocks = {}
    /\ feed_left = 0
    /\ chain = {}

AskEvent(pallet, variant) ==
    /\ op' = [name |-> "should_include_event", pallet |-> pallet,
              variant |-> variant,
              result |-> should_include_event(event_filters, pallet, variant)]
    /\ UNCHANGED <<config, blocks, block_info, rw, task, requests, now,
                   feed_left, history>>

NextFilter == \E pallet \in Pallets, variant \in Variants : AskEvent(pallet, variant)

SpecFilter == InitFilter /\ [][NextFilter]_vars

----------------------------------------------------------------------------
(* The store specification: one call on every table of keys 0..MaxKey     *)

SampleInfo ==
    [index |-> 0, hash |-> "0xe1", action |-> "Balances/transfer",
     params |-> "(a,1)",
     events |-> <<[pallet |-> "Balances", variant |-> "Transfer", data |-> "(1)"]>>]

GoodRow(k) == RowOf(StoredBlock(k, "0xa", <<SampleInfo>>, 0))

BadRow(k, text) ==
    [block_number |-> k, block_hash |-> "0xa", block_data |-> text,
     timestamp |-> 0]

RowChoices(k) == {{}, {GoodRow(k)}} \cup {{BadRow(k, t)} : t \in CorruptTexts(k)}

Tables ==
    {UNION {pick[k] : k \in Keys} :
        pick \in {f \in [Keys -> UNION {RowChoices(k) : k \in Keys}] :
                    \A k \in Keys : f[k] \in RowChoices(k)}}

StoreRecords ==
    {StoredBlock(k, h, infos, t) :
        k \in Keys, h \in {"0xa", "0xb"}, infos \in {<<>>, <<SampleInfo>>},
        t \in 0..MaxClock}

InitStore ==
    /\ InitCommon
    /\ event_filters = EXCLUDED_EVENTS
    /\ extrinsic_filters = EXCLUDED_EXTRINSICS
    /\ blocks \in Tables
    /\ feed_left = 0
    /\ chain = {}

FirstCall == op = NoOp /\ http = NoHttp

RangeScan(start, end, limit) ==
    /\ FirstCall
    /\ \E io \in BOOLEAN :
        op' = [name |-> "get_blocks_range", start |-> start, end |-> end,
               limit |-> limit, engine |-> io,
               result |-> get_blocks_range(blocks, start, end, limit, io)]
    /\ UNCHANGED <<config, blocks, block_info, rw, task, requests, now,
                   feed_left, history>>

LatestNumber ==
    /\ FirstCall
    /\ \E io \in BOOLEAN :
        op' = [name |-> "get_latest_block_number", engine |-> io,
               result |-> get_latest_block_number(blocks, io)]
    /\ UNCHANGED <<config, blocks, block_info, rw, task, requests, now,
                   feed_left, history>>

\* store_block(b), Ok or Err; times counts the calls that returned Ok
Upsert(b) ==
    /\ FirstCall
    /\ \E io \in BOOLEAN :
        /\ blocks' = IF io THEN store_block(blocks, b) ELSE blocks
        /\ op' = [name |-> "store_block", record |-> b,
                  times |-> IF io THEN 1 ELSE 0,
                  before |-> blocks, once |-> blocks']
    /\ UNCHANGED <<config, block_info, rw, task, requests, now, feed_left,
                   history>>

\* the same record once more
UpsertAgain ==
    /\ op.name = "store_block"
    /\ op.times = 1
    /\ \E io \in BOOLEAN :
        /\ blocks' = IF io THEN store_block(blocks, op.record) ELSE blocks
        /\ op' = [op EXCEPT !.times = IF io THEN 2 ELSE 1]
    /\ UNCHANGED <<config, block_info, rw, task, requests, now, feed_left,
                   history>>

Lookup(n) == FirstCall /\ get_block_by_number(n)

Latest(r) == op = NoOp /\ http.route # "/block/:number" /\ get_head_block(r)

NextStore ==
    \/ \E n \in Keys : Lookup(n)
    \/ \E r \in Readers : Latest(r)
    \/ \E start \in Keys, end \in Keys, limit \in 0..MaxLimit :
          RangeScan(start, end, limit)
    \/ LatestNumber
    \/ \E b \in StoreRecords : Upsert(b)
    \/ UpsertAgain

SpecStore == InitStore /\ [][NextStore]_vars

----------------------------------------------------------------------------
(* What the claims read *)

\* the record of n a lookup served by the engine returns
Stored(n) == get_block(blocks, n, TRUE)

\* the BlockInfo whose five fields all come from block b
ViewOf(b) ==
    LET p == Project(event_filters, extrinsic_filters, b) IN
    [number |-> b.number, hash |-> b.hash,
     extrinsics_count |-> Len(p.extrinsics_info),
     events_count |-> p.total_events, extrinsics |-> p.extrinsics_info]

\* a stored extrinsic value read back as an ExtrinsicInfo
InfoOfValue(v) ==
    [index |-> v.members.index, hash |-> v.members.hash,
     action |-> v.members.action, params |-> v.members.params,
     events |-> [i \in 1..Len(v.members.events.items) |->
                   v.members.events.items[i].members]]

AtRest == pc = "next"

----------------------------------------------------------------------------
(* Ingestion and the view: claims C1 to C5 *)

\* C1, as stated: once a write of block N has succeeded the store holds
\* exactly one record for N, the one of the first successful write, and no
\* later delivery of N changes it.
C1_FirstWriteNeverReplaced ==
    \A n \in Numbers :
        first_written[n].written =>
            /\ Cardinality(RowsAt(blocks, n)) = 1
            /\ Stored(n) = SomeResult(first_written[n].block)

\* C1, amended: the store never holds two rows for a number, and the record
\* of the first successful write of N stays as long as no later dedup lookup
\* of N has failed with a read error.
C1_FirstWriteKeptWhileLookupsWork ==
    \A n \in Numbers :
        /\ Cardinality(RowsAt(blocks, n)) <= 1
        /\ (first_written[n].written /\ n \notin relooked) =>
              /\ Cardinality(RowsAt(blocks, n)) = 1
              /\ Stored(n) = SomeResult(first_written[n].block)

\* a redelivery of a stored block was skipped
C1_RedeliverySkipped ==
    \E n \in Numbers :
        /\ first_written[n].written
        /\ n \notin relooked
        /\ outcome.state = "Skipped"
        /\ outcome.number = n

\* C2: every view other than the placeholder that get_head_block has
\* returned describes a block the store holds; a failed upsert leaves the
\* view as it was.
C2_ViewOnlyOfStoredBlocks ==
    /\ (http.route = "/blocks/head" /\ http.body.number # 0) =>
          Stored(http.body.number).tag = "Some"
    /\ (AtRest /\ outcome.state = "Failed") =>
          (block_info.number = outcome.number =>
              /\ Stored(outcome.number).tag = "Some"
              /\ Stored(outcome.number).block.hash = block_info.hash)

\* C3: right after a delivery of block N ended in Stored, the view shows N
\* and the record stored under N has the view's hash and, read back, the
\* view's extrinsics in the same order.
C3_ViewMatchesStore ==
    (AtRest /\ outcome.state = "Stored") =>
        LET n == outcome.number
            res == Stored(n)
        IN /\ block_info.number = n
           /\ Response(res).status = 200
           /\ res.block.number = n
           /\ res.block.hash = block_info.hash
           /\ Len(res.block.extrinsics) = Len(block_info.extrinsics)
           /\ \A i \in 1..Len(res.block.extrinsics) :
                 InfoOfValue(res.block.extrinsics[i]) = block_info.extrinsics[i]

\* a block with an extrinsic and an event has just been stored
C3_StoredWithExtrinsics ==
    /\ AtRest
    /\ outcome.state = "Stored"
    /\ block_info.extrinsics # <<>>
    /\ block_info.events_count > 0

\* C4: whatever get_head_block returns is the placeholder or the view of
\* one block, all five fields from that block.
C4_HeadIsOneBlock ==
    http.route = "/blocks/head" =>
        \/ http.body = Placeholder
        \/ \E b \in chain : http.body = ViewOf(b)

\* a reader got the view of one block while the writer was replacing it
\* with another
C4_ReadBetweenReplacements ==
    /\ http.route = "/blocks/head"
    /\ http.body # Placeholder
    /\ http.body.hash # block_info.hash
    /\ pc \in {"set_extrinsics_count", "set_events_count", "set_extrinsics"}

\* C5, as stated: after the upsert of block N failed the store holds no
\* record of N.
C5_FailedBlockAbsent ==
    outcome.state = "Failed" => Stored(outcome.number).tag # "Some"

\* C5, amended: a failed upsert does not end the task and stores nothing: N
\* is without a record unless an earlier delivery stored one; and a delivery
\* is skipped only when the lookup finds a record.
C5_FailedWriteNotSticky ==
    /\ outcome.state = "Failed" =>
          /\ pc \in {"unlock", "next", "ended"}
          /\ ~first_written[outcome.number].written =>
                Stored(outcome.number).tag # "Some"
    /\ outcome.state = "Skipped" => Stored(outcome.number).tag = "Some"
    /\ \A n \in failed :
          ~first_written[n].written => Stored(n).tag # "Some"

\* a block whose upsert had failed was delivered again and stored
C5_StoredAfterFailure ==
    \E n \in failed :
        /\ outcome.state = "Stored"
        /\ outcome.number = n
        /\ first_written[n].written
        /\ Stored(n).tag = "Some"

----------------------------------------------------------------------------
(* Filters: claims C6 and C7 *)

Excludes(rule, pallet, variant) ==
    /\ rule.pallet = pallet
    /\ ~rule.method.some \/ rule.method.name = variant

Orders(n) == {f \in [1..n -> 1..n] : \A i, j \in 1..n : f[i] = f[j] => i = j}

\* C6: should_include_event is false exactly when some rule, wherever it
\* stands, has the pallet and no method or the variant as method; the rules
\* in any other order give the same answer.
C6_EventExcludedIffSomeRuleMatches ==
    op.name = "should_include_event" =>
        LET n == Len(event_filters) IN
        /\ op.result = ~(\E i \in 1..n : Excludes(event_filters[i], op.pallet, op.variant))
        /\ \A f \in Orders(n) :
              should_include_event([i \in 1..n |-> event_filters[f[i]]],
                                   op.pallet, op.variant) = op.result

\* the first rule of the pallet names another method, a later one excludes
C6_LaterRuleExcludes ==
    /\ op.name = "should_include_event"
    /\ op.result = FALSE
    /\ Len(event_filters) = 2
    /\ event_filters[1].pallet = op.pallet
    /\ ~Excludes(event_filters[1], op.pallet, op.variant)
    /\ Excludes(event_filters[2], op.pallet, op.variant)

\* the events of raw extrinsic x that are decoded and pass the event filter
PassingEvents(x) ==
    {j \in 1..Len(x.events.items) :
        /\ x.events.items[j].ok
        /\ should_include_event(event_filters, x.events.items[j].pallet,
                                x.events.items[j].variant)}

IsExcluded(x) == \E i \in 1..Len(extrinsic_filters) : extrinsic_filters[i] = Action(x)

RECURSIVE SumOver(_, _)
SumOver(S, count) ==
    IF S = {} THEN 0
    ELSE LET i == CHOOSE i \in S : TRUE IN count[i] + SumOver(S \ {i}, count)

\* C7: once the view is written and the upsert done, no extrinsic whose
\* action is excluded is in the view or in the stored record, and
\* events_count is the number of passing events of the other extrinsics.
C7_ExcludedExtrinsicLeavesNothing ==
    (pc = "unlock") =>
        LET raw == block.extrinsics.items
            gone == {i \in 1..Len(raw) : IsExcluded(raw[i])}
            kept == (1..Len(raw)) \ gone
            res == Stored(block.number)
        IN /\ \A i \in gone, k \in 1..Len(block_info.extrinsics) :
                 block_info.extrinsics[k].index # raw[i].index
           /\ block_info.events_count =
                 SumOver(kept, [i \in kept |-> Cardinality(PassingEvents(raw[i]))])
           /\ outcome.state = "Stored" =>
                 /\ res.tag = "Some"
                 /\ \A i \in gone, k \in 1..Len(res.block.extrinsics) :
                       InfoOfValue(res.block.extrinsics[k]).index # raw[i].index

\* a block with an excluded extrinsic whose event passes the event filter
\* and a kept extrinsic has been stored
C7_ExcludedWithPassingEvent ==
    /\ pc = "unlock"
    /\ outcome.state = "Stored"
    /\ \E i \in 1..Len(block.extrinsics.items) :
          /\ IsExcluded(block.extrinsics.items[i])
          /\ block.extrinsics.items[i].events.ok
          /\ PassingEvents(block.extrinsics.items[i]) # {}
    /\ block_info.extrinsics # <<>>

----------------------------------------------------------------------------
(* The store: claims C8 to C10 *)

WellFormed(row) == FromJsonString(row.block_data).ok

\* C8: a lookup answers 200 with the record exactly when the engine serves
\* it and the row is there and parses, 404 exactly when the engine serves it
\* and no row is there, 500 otherwise; get_head_block answers 200.
C8_ThreeOutcomes ==
    /\ http.route = "/block/:number" =>
          LET rows == RowsAt(blocks, http.number) IN
          /\ http.status \in {200, 404, 500}
          /\ http.status = 404 <=> (http.engine /\ rows = {})
          /\ http.status = 200 <=>
                (http.engine /\ \E row \in rows : WellFormed(row))
          /\ http.status = 200 =>
                \E row \in rows :
                    /\ http.response.body.number = row.block_number
                    /\ http.response.body.hash = row.block_data.members.hash
                    /\ http.response.body.extrinsics =
                          row.block_data.members.extrinsics.items
                    /\ http.response.body.timestamp =
                          row.block_data.members.timestamp
          /\ (\E row \in rows : ~WellFormed(row)) => http.status = 500
    /\ http.route = "/blocks/head" => http.status = 200

\* the engine served the lookup of a row whose text does not parse
C8_CorruptRowLookedUp ==
    /\ http.route = "/block/:number"
    /\ http.engine
    /\ \E row \in RowsAt(blocks, http.number) : ~WellFormed(row)
    /\ http.status = 500

RowKeys(rows) == {r.block_number : r \in rows}

\* C9: on a table of well-formed rows a range scan the engine serves
\* returns min(limit, count) records, keys strictly descending, each the
\* record stored under a key of [start, end], and no key of the range left
\* out is above a returned one.
C9_RangeDescendingBounded ==
    (/\ op.name = "get_blocks_range"
     /\ op.engine
     /\ \A row \in blocks : WellFormed(row)) =>
        LET res == op.result.blocks
            keys == {k \in RowKeys(blocks) : op.start <= k /\ k <= op.end}
        IN /\ op.result.ok
           /\ Len(res) = Min(op.limit, Cardinality(keys))
           /\ \A i \in 1..Len(res) :
                 /\ res[i].number \in keys
                 /\ Stored(res[i].number) = SomeResult(res[i])
           /\ \A i, j \in 1..Len(res) : i < j => res[i].number > res[j].number
           /\ \A k \in keys :
                 (\A i \in 1..Len(res) : res[i].number # k) =>
                    \A i \in 1..Len(res) : res[i].number > k

\* rows 0..3 and the scan (1, 3, 2), which returns 3 and 2
C9_ThreeTwo ==
    /\ op.name = "get_blocks_range"
    /\ op.engine
    /\ \A row \in blocks : WellFormed(row)
    /\ RowKeys(blocks) = 0..3
    /\ op.start = 1 /\ op.end = 3 /\ op.limit = 2
    /\ [i \in 1..Len(op.result.blocks) |-> op.result.blocks[i].number] = <<3, 2>>

\* C10: after the same record was upserted twice the table is the one left
\* by the first upsert, a lookup of its number returns the record, the rows
\* of the other keys are those from before, and the latest number is that
\* after the first upsert.
C10_UpsertTwiceIsOnce ==
    (op.name = "store_block" /\ op.times = 2) =>
        /\ blocks = op.once
        /\ Stored(op.record.number) = SomeResult(op.record)
        /\ Cardinality(RowsAt(blocks, op.record.number)) = 1
        /\ \A k \in Keys :
              k # op.record.number => RowsAt(blocks, k) = RowsAt(op.before, k)
        /\ get_latest_block_number(blocks, TRUE) =
              get_latest_block_number(op.once, TRUE)
        /\ get_latest_block_number(blocks, TRUE).some

\* a record was upserted twice over an older row of its key, below the
\* highest key
C10_UpsertedTwiceOverOldRow ==
    /\ op.name = "store_block"
    /\ op.times = 2
    /\ RowsAt(op.before, op.record.number) # {}
    /\ RowsAt(op.before, op.record.number) # {RowOf(op.record)}
    /\ get_latest_block_number(blocks, TRUE).number > op.record.number

----------------------------------------------------------------------------
(* The flows: claims C11 to C16 *)

\* the while let loop has ended or the task has panicked
Stopped == pc \in {"ended", "panicked"}

\* what get_block_by_number answers from table rows
Answer(rows, h) == Response(get_block(rows, h.number, h.engine))

\* C11: once the subscription task has stopped it stays stopped, the view
\* and the table no longer change, the lock is free for readers, and each
\* handler answers from the view and the table as they were left.
C11_QueriesOutliveIngestion ==
    /\ [](Stopped => CanRead(rw))
    /\ [][Stopped =>
            /\ Stopped'
            /\ block_info' = block_info
            /\ blocks' = blocks
            /\ (http' # http /\ http'.route = "/blocks/head") =>
                  (http'.status = 200 /\ http'.body = block_info)
            /\ (http' # http /\ http'.route = "/block/:number") =>
                  http'.response = Answer(blocks, http')]_vars

\* the task has panicked on a block after an earlier one reached the view,
\* and a get_head_block request is being served
C11_ServedAfterPanic ==
    /\ pc = "panicked"
    /\ outcome.state = "Aborted"
    /\ block_info # Placeholder
    /\ \E r \in Readers : rpc[r] = "locked"

\* C12: the task does not hold the write guard while store_block is being
\* called or has just returned, so a get_head_block request arriving then
\* can take the read lock at once.
C12_GuardFreeDuringStoreWrite ==
    pc \in {"store", "unlock"} => CanRead(rw)

\* C13: a block whose extrinsics were fetched is never abandoned because
\* one of its items failed to resolve, decode or render: from the
\* projection step the task goes on to the view and the table, it does
\* not stop.
C13_ItemFailureNeverAborts ==
    [][(pc = "project" /\ block.extrinsics.ok) => pc' # "panicked"]_vars

\* C14: the step that skips a delivery because the lookup found a row for
\* its number leaves the table and the view exactly as they were.
C14_SkipChangesNothing ==
    [][(pc = "dedup" /\ outcome'.state = "Skipped") =>
            /\ blocks' = blocks
            /\ block_info' = block_info]_vars

\* a delivery was skipped whose hash is neither the stored one nor the
\* one in the view
C14_SkippedWithOtherHash ==
    /\ pc = "next"
    /\ outcome.state = "Skipped"
    /\ Stored(outcome.number).tag = "Some"
    /\ Stored(outcome.number).block.hash # outcome.hash
    /\ block_info.number = outcome.number
    /\ block_info.hash # outcome.hash

\* C15: the dedup step skips a delivery only when the table holds a
\* readable row for its number; in every other case, a lookup that failed
\* included, the task keeps the block and goes on to project it, and a
\* block that reaches the table after such a lookup was written by
\* store_block.
C15_FailedLookupIsNotPresent ==
    [][(pc = "dedup" /\ pc' # pc) =>
            \/ /\ outcome'.state = "Skipped"
               /\ Stored(block.number).tag = "Some"
            \/ /\ pc' = "project"
               /\ block' = block
               /\ outcome' = outcome]_vars

\* a block already in the table was looked up with an error, projected
\* again and written
C15_WrittenAfterFailedLookup ==
    /\ outcome.state = "Stored"
    /\ outcome.number \in relooked
    /\ Stored(outcome.number).tag = "Some"
    /\ Stored(outcome.number).block.hash = outcome.hash

\* C16: when the subscription ends or yields an error item the task
\* stops at once, so no block delivered afterwards is projected, written
\* or shown in the view.
C16_FeedErrorStopsIngestion ==
    [][(FeedError \/ FeedEnd) => Stopped']_vars

----------------------------------------------------------------------------
(* The projection again: claims C17 and C18 *)

KeepsExtrinsic(x) == ~IsExcluded(x)

KeepsEvent(evt) ==
    /\ evt.ok
    /\ ~\E i \in 1..Len(event_filters) :
          Excludes(event_filters[i], evt.pallet, evt.variant)

\* rec lists the extrinsics of raw that are kept, in order, each with its
\* kept events in order
ShapeOf(rec, raw) ==
    LET keptx == SelectSeq(raw, KeepsExtrinsic) IN
    /\ Len(rec) = Len(keptx)
    /\ \A k \in 1..Len(keptx) :
          LET evs == SelectSeq(keptx[k].events.items, KeepsEvent) IN
          /\ rec[k].index = keptx[k].index
          /\ rec[k].hash = keptx[k].hash
          /\ rec[k].action = Action(keptx[k])
          /\ Len(rec[k].events) = Len(evs)
          /\ \A j \in 1..Len(evs) :
                /\ rec[k].events[j].pallet = evs[j].pallet
                /\ rec[k].events[j].variant = evs[j].variant

\* C17: once the view is written and store_block has returned, the view
\* lists exactly the extrinsics whose action is not excluded, in block
\* order, each with exactly its decoded events that no rule excludes, in
\* order; extrinsics_count is the length of the list and events_count the
\* total of the events lists; a written row holds the same list.
C17_ProjectionShape ==
    (pc = "unlock") =>
        LET rec == block_info.extrinsics
            res == Stored(block.number)
        IN /\ ShapeOf(rec, block.extrinsics.items)
           /\ block_info.extrinsics_count = Len(rec)
           /\ block_info.events_count =
                 SumOver(1..Len(rec), [k \in 1..Len(rec) |-> Len(rec[k].events)])
           /\ outcome.state = "Stored" =>
                 /\ res.tag = "Some"
                 /\ Len(res.block.extrinsics) = Len(rec)
                 /\ \A k \in 1..Len(rec) :
                       InfoOfValue(res.block.extrinsics[k]) = rec[k]

\* a block with two kept extrinsics, one of them with two recorded events
\* and one with a decoded event that a rule excludes, has been stored
C17_TwoKeptOneEventDropped ==
    /\ pc = "unlock"
    /\ outcome.state = "Stored"
    /\ Len(block_info.extrinsics) = 2
    /\ \E k \in 1..2 : Len(block_info.extrinsics[k].events) = 2
    /\ \E i \in 1..Len(block.extrinsics.items) :
          LET x == block.extrinsics.items[i] IN
          /\ KeepsExtrinsic(x)
          /\ \E j \in 1..Len(x.events.items) :
                x.events.items[j].ok /\ ~KeepsEvent(x.events.items[j])

\* position k of rec records raw extrinsic x as an unresolved action
RecordsUnknown(rec, x) ==
    \E k \in 1..Len(rec) : rec[k].index = x.index /\ rec[k].action = "unknown"

Unresolved(raw) == {i \in 1..Len(raw) : ~raw[i].meta.ok}

ExcludesUnknown == \E i \in 1..Len(extrinsic_filters) : extrinsic_filters[i] = "unknown"

----------------------------------------------------------------------------
(* The range scan with unreadable rows: claim C19 *)

\* C19: with the engine serving, a range scan over a table that may hold
\* rows that do not parse succeeds and returns the readable records of the
\* range, highest key first, cut to the limit: as many as the limit when
\* the range holds that many readable rows.
C19_BadRowsDoNotCostResults ==
    (op.name = "get_blocks_range" /\ op.engine) =>
        LET res == op.result.blocks
            good == {row.block_number : row \in
                        {r \in InRange(blocks, op.start, op.end) : WellFormed(r)}}
        IN /\ op.result.ok
           /\ Len(res) = Min(op.limit, Cardinality(good))
           /\ \A i \in 1..Len(res) : res[i].number \in good
           /\ \A i, j \in 1..Len(res) : i < j => res[i].number > res[j].number
           /\ \A k \in good :
                 (\A i \in 1..Len(res) : res[i].number # k) =>
                    \A i \in 1..Len(res) : res[i].number > k

----------------------------------------------------------------------------
(* The order of view and table as readers see it: claim C20 *)

\* the task is between its first assignment to the view and the return of
\* store_block
WritePending ==
    pc \in {"set_number", "set_hash", "set_extrinsics_count",
            "set_events_count", "set_extrinsics", "store"}

\* store_block has been called for number n and has returned
Attempted(n) == first_written[n].written \/ n \in failed

\* C20: no get_head_block request holds the read lock while the task is
\* between its first assignment to the view and the return of store_block,
\* and a view other than the placeholder that a request holds or has
\* returned shows a number for which store_block has returned.
C20_ViewSeenOnlyAfterStoreReturned ==
    /\ \A r \in Readers :
          rpc[r] = "locked" =>
             /\ ~WritePending
             /\ block_info # Placeholder => Attempted(block_info.number)
    /\ (http.route = "/blocks/head" /\ http.body # Placeholder) =>
          Attempted(http.body.number)

\* the view of a block whose upsert has just failed was returned
C20_HeadShowsBlockAfterFailedWrite ==
    /\ pc = "next"
    /\ outcome.state = "Failed"
    /\ http.route = "/blocks/head"
    /\ http.body.number = outcome.number
    /\ http.body.hash = outcome.hash
    /\ Stored(outcome.number).tag = "None"

====
